---- MODULE Spec2Model ----
(***************************************************************************)
(* A model of the jason JSON front end: the raw lexer (lexer/base), the    *)
(* unescape engine (lexer/base/unescape.rs), the token cooker              *)
(* (lexer/mod.rs) and the recursive-descent parser (parser.rs).            *)
(*                                                                         *)
(* A source text is a sequence of characters; a character is a one-letter  *)
(* string, or the name of a multi-byte scalar ("U+00E9").  Positions kept  *)
(* by the cooker are byte offsets, as in the source.                       *)
(***************************************************************************)
EXTENDS Integers, Sequences, FiniteSets, TLC

VARIABLES input, tokenizer, peeked, stack, vals, result, fetched, nerrors,
          lexer, toks, calls, unescaper

vars == <<input, tokenizer, peeked, stack, vals, result, fetched, nerrors,
          lexer, toks, calls, unescaper>>

(***************************************************************************)
(* Characters.                                                             *)
(***************************************************************************)
Digits == {"0", "1", "2", "3", "4", "5", "6", "7", "8", "9"}

HexLetters == {"a", "b", "c", "d", "e", "f", "A", "B", "C", "D", "E", "F"}

Letters == HexLetters \cup {"l", "n", "r", "s", "t", "u", "x", "U+00E9"}

ControlChars == {"\n", "\r", "\t", "\f", "U+0008", "U+0000"}

\* the value Cursor::first/second/third give at end of input
EOF_CHAR == "U+0000"

\* char::len_utf8
len_utf8(c) ==
  CASE c = "U+00E9" -> 2
    [] c = "U+1F1F1" -> 4
    [] OTHER -> 1

\* char::is_whitespace
is_whitespace(c) == c \in {" ", "\n", "\r", "\t", "\f"}

is_id_start(c) == c \in Letters

is_id_continue(c) == c \in Letters \cup Digits \cup {"_"}

RECURSIVE ByteLen(_)
\* str::len: the byte length of a text
ByteLen(s) == IF s = <<>> THEN 0 ELSE len_utf8(Head(s)) + ByteLen(Tail(s))

\* the number of characters of s that end at or before byte offset b
RECURSIVE CharsBefore(_, _)
CharsBefore(s, b) ==
  IF s = <<>> \/ len_utf8(Head(s)) > b THEN 0
  ELSE 1 + CharsBefore(Tail(s), b - len_utf8(Head(s)))

\* str::is_char_boundary
is_char_boundary(s, b) ==
  b >= 0 /\ b <= ByteLen(s) /\ ByteLen(SubSeq(s, 1, CharsBefore(s, b))) = b

(***************************************************************************)
(* Cursor: a character iterator over the text and the byte length that was *)
(* left when the current lexeme began.  i is the number of characters      *)
(* already consumed.                                                       *)
(***************************************************************************)
RemBytes(s, i) == ByteLen(SubSeq(s, i + 1, Len(s)))

CursorNew(s) == [i |-> 0, len_remaining |-> ByteLen(s)]

nth_char(s, c, n) == IF c.i + n <= Len(s) THEN s[c.i + n] ELSE EOF_CHAR

first(s, c) == nth_char(s, c, 1)

second(s, c) == nth_char(s, c, 2)

third(s, c) == nth_char(s, c, 3)

is_eof(s, c) == c.i >= Len(s)

bump(s, c) == IF is_eof(s, c) THEN c ELSE [c EXCEPT !.i = @ + 1]

pos_within_token(s, c) == c.len_remaining - RemBytes(s, c.i)

reset_pos_within_token(s, c) == [c EXCEPT !.len_remaining = RemBytes(s, c.i)]

(***************************************************************************)
(* Raw lexer (lexer/base/mod.rs).  A sub-lexer gives the kind it found and *)
(* the cursor after it.                                                    *)
(***************************************************************************)
Lexed(kind, terminated, cur) == [kind |-> kind, terminated |-> terminated, cur |-> cur]

RECURSIVE eat_whitespace(_, _)
\* eat_while(|ch| ch.is_whitespace())
eat_whitespace(s, c) ==
  IF ~is_eof(s, c) /\ is_whitespace(first(s, c))
  THEN eat_whitespace(s, bump(s, c)) ELSE c

whitespace(s, c) == Lexed("Whitespace", FALSE, eat_whitespace(s, c))

RECURSIVE eat_id_continue(_, _)
\* eat_while(is_id_continue)
eat_id_continue(s, c) ==
  IF ~is_eof(s, c) /\ is_id_continue(first(s, c))
  THEN eat_id_continue(s, bump(s, c)) ELSE c

ident(s, c) == Lexed("Ident", FALSE, eat_id_continue(s, c))

RECURSIVE eat_decimal_digits(_, _)
eat_decimal_digits(s, c) ==
  IF first(s, c) \in Digits THEN eat_decimal_digits(s, bump(s, c)) ELSE c

\* the exponent of Cursor::number: a marker without digits is not consumed
\* and the kind stays what it was
number_exponent(s, c, otherwise) ==
  IF first(s, c) \in {"e", "E"}
  THEN IF second(s, c) \in Digits
       THEN Lexed("Float", FALSE, eat_decimal_digits(s, bump(s, c)))
       ELSE IF second(s, c) \in {"+", "-"} /\ third(s, c) \in Digits
            THEN Lexed("Float", FALSE, eat_decimal_digits(s, bump(s, bump(s, c))))
            ELSE Lexed(otherwise, FALSE, c)
  ELSE Lexed(otherwise, FALSE, c)

\* Cursor::number after the integer digits
number_fraction(s, c) ==
  IF first(s, c) = "."
  THEN IF second(s, c) \in Digits
       THEN number_exponent(s, eat_decimal_digits(s, bump(s, c)), "Float")
       ELSE Lexed("Int", FALSE, c)
  ELSE number_exponent(s, c, "Int")

\* has_digits of Cursor::number, for a first digit 0
number_zero_has_digits(s, c) ==
  IF first(s, c) = "." THEN second(s, c) \in Digits
  ELSE IF first(s, c) \in {"e", "E"}
       THEN \/ second(s, c) \in Digits
            \/ second(s, c) \in {"+", "-"} /\ third(s, c) \in Digits
  ELSE FALSE

number(s, c, first_digit) ==
  IF first_digit = "0"
  THEN IF ~number_zero_has_digits(s, c) THEN Lexed("Int", FALSE, c)
       ELSE number_fraction(s, c)
  ELSE number_fraction(s, eat_decimal_digits(s, c))

RECURSIVE double_quoted_string_unpaired(_, _)
\* a scan that ends at the first quote, escaped or not
double_quoted_string_unpaired(s, c) ==
  IF is_eof(s, c) THEN Lexed("Str", FALSE, c)
  ELSE IF first(s, c) = "\"" THEN Lexed("Str", TRUE, bump(s, c))
  ELSE double_quoted_string_unpaired(s, bump(s, c))

RECURSIVE double_quoted_string(_, _)
\* the cursor after the string and whether it was terminated
double_quoted_string(s, c) ==
  IF is_eof(s, c) THEN Lexed("Str", FALSE, c)
  ELSE IF first(s, c) = "\"" THEN Lexed("Str", TRUE, bump(s, c))
  ELSE IF first(s, c) = "\\" /\ second(s, c) \in {"\\", "\""}
       THEN double_quoted_string(s, bump(s, bump(s, c)))
       ELSE double_quoted_string(s, bump(s, c))

PunctuationKind(x) ==
  CASE x = "{" -> "OpenBracket"
    [] x = "}" -> "CloseBracket"
    [] x = "[" -> "OpenSquare"
    [] x = "]" -> "CloseSquare"
    [] x = ":" -> "Colon"
    [] x = "," -> "Comma"

RawToken(kind, terminated, len, cur) ==
  [kind |-> kind, terminated |-> terminated, len |-> len, cur |-> cur]

\* the end of advance_token: the lexeme's length is the position within the
\* token, which is then reset
advance_token_end(s, x) ==
  RawToken(x.kind, x.terminated, pos_within_token(s, x.cur),
           reset_pos_within_token(s, x.cur))

\* the early return for a '-' that no digit follows: length 1, and the
\* position within the token is not reset
advance_token_lone_minus(s, c1) == RawToken("Unknown", FALSE, 1, c1)

\* advance_token after the bump of first_char
advance_token_match(s, first_char, c1) ==
  IF is_whitespace(first_char) THEN advance_token_end(s, whitespace(s, c1))
  ELSE IF is_id_start(first_char) THEN advance_token_end(s, ident(s, c1))
  ELSE IF first_char \in Digits
    THEN advance_token_end(s, number(s, c1, first_char))
  ELSE IF first_char = "-"
    THEN IF first(s, c1) \in Digits
         THEN advance_token_end(s, number(s, bump(s, c1), first(s, c1)))
         ELSE advance_token_lone_minus(s, c1)
  ELSE IF first_char \in {"{", "}", "[", "]", ":", ","}
    THEN advance_token_end(s, Lexed(PunctuationKind(first_char), FALSE, c1))
  ELSE IF first_char = "\""
    THEN advance_token_end(s, double_quoted_string(s, c1))
  ELSE advance_token_end(s, Lexed("Unknown", FALSE, c1))

\* an advance_token whose Eof lexeme has the measured length
advance_token_eof_measured(s, c) ==
  IF is_eof(s, c) THEN RawToken("Eof", FALSE, pos_within_token(s, c), c)
  ELSE advance_token_match(s, first(s, c), bump(s, c))

advance_token(s, c) ==
  IF is_eof(s, c) THEN RawToken("Eof", FALSE, 0, c)
  ELSE advance_token_match(s, first(s, c), bump(s, c))

(***************************************************************************)
(* Unescape engine (lexer/base/unescape.rs).  A result is a record: ok,    *)
(* with the decoded character or the EscapeError, and n, the number of     *)
(* characters consumed.                                                    *)
(***************************************************************************)
HexVal(c) ==
  CASE c = "0" -> 0 [] c = "1" -> 1 [] c = "2" -> 2 [] c = "3" -> 3
    [] c = "4" -> 4 [] c = "5" -> 5 [] c = "6" -> 6 [] c = "7" -> 7
    [] c = "8" -> 8 [] c = "9" -> 9
    [] c \in {"a", "A"} -> 10 [] c \in {"b", "B"} -> 11
    [] c \in {"c", "C"} -> 12 [] c \in {"d", "D"} -> 13
    [] c \in {"e", "E"} -> 14 [] c \in {"f", "F"} -> 15

\* char::to_digit(16) is Some
is_hex_digit(c) == c \in Digits \cup HexLetters

HexName == <<"0", "1", "2", "3", "4", "5", "6", "7", "8", "9",
             "A", "B", "C", "D", "E", "F">>

\* the characters with the values 32 to 126
AsciiPrintable ==
  <<" ", "!", "\"", "#", "$", "%", "&", "'", "(", ")", "*", "+", ",", "-",
    ".", "/", "0", "1", "2", "3", "4", "5", "6", "7", "8", "9", ":", ";",
    "<", "=", ">", "?", "@", "A", "B", "C", "D", "E", "F", "G", "H", "I",
    "J", "K", "L", "M", "N", "O", "P", "Q", "R", "S", "T", "U", "V", "W",
    "X", "Y", "Z", "[", "\\", "]", "^", "_", "U+0060", "a", "b", "c", "d", "e",
    "f", "g", "h", "i", "j", "k", "l", "m", "n", "o", "p", "q", "r", "s",
    "t", "u", "v", "w", "x", "y", "z", "{", "|", "}", "~">>

\* the name of the scalar with a 16-bit value: a one-letter string, else
\* "U+XXXX"
ScalarName(value) ==
  IF value >= 32 /\ value <= 126 THEN AsciiPrintable[value - 31]
  ELSE CASE value = 10 -> "\n"
         [] value = 13 -> "\r"
         [] value = 9 -> "\t"
         [] value = 12 -> "\f"
         [] OTHER -> "U+" \o HexName[(value \div 4096) + 1]
                          \o HexName[((value \div 256) % 16) + 1]
                          \o HexName[((value \div 16) % 16) + 1]
                          \o HexName[(value % 16) + 1]

\* std::char::from_u32: no scalar for a surrogate or beyond 0x10FFFF
from_u32_is_some(value) ==
  ~(value >= 55296 /\ value <= 57343) /\ value <= 1114111

EscOk(ch, n) == [ok |-> TRUE, ch |-> ch, err |-> "", n |-> n]

EscErr(err, n) == [ok |-> FALSE, ch |-> "", err |-> err, n |-> n]

\* the break of scan_escape's loop with the fourth digit read
scan_unicode_value(value, n) ==
  IF from_u32_is_some(value) THEN EscOk(ScalarName(value), n)
  ELSE IF value > 1114111 THEN EscErr("OutOfRangeUnicodeEscape", n)
  ELSE EscErr("LoneSurrogateUnicodeEscape", n)

RECURSIVE scan_unicode(_, _, _, _)
\* the loop of scan_escape after the first digit: n_digits digits read so far,
\* k characters consumed after the backslash
scan_unicode(r, k, n_digits, value) ==
  IF k >= Len(r) THEN EscErr("BadUnicodeEscape", k)
  ELSE IF ~is_hex_digit(r[k + 1]) THEN EscErr("BadUnicodeEscape", k + 1)
  ELSE IF n_digits + 1 < 4
    THEN scan_unicode(r, k + 1, n_digits + 1, value * 16 + HexVal(r[k + 1]))
  ELSE scan_unicode_value(value * 16 + HexVal(r[k + 1]), k + 1)

\* a scan_escape without the table of escapes: the escaped character stands
\* for itself, and no \u escape is read
scan_escape_lenient(r) ==
  IF r = <<>> THEN EscErr("LoneSlash", 0)
  ELSE IF r[1] = "u" THEN EscErr("BadUnicodeEscape", 1)
  ELSE EscOk(r[1], 1)

\* r is the text after the backslash
scan_escape(r) ==
  IF r = <<>> THEN EscErr("LoneSlash", 0)
  ELSE CASE r[1] = "\"" -> EscOk("\"", 1)
         [] r[1] = "\\" -> EscOk("\\", 1)
         [] r[1] = "/" -> EscOk("/", 1)
         [] r[1] = "b" -> EscOk("U+0008", 1)
         [] r[1] = "f" -> EscOk("\f", 1)
         [] r[1] = "n" -> EscOk("\n", 1)
         [] r[1] = "r" -> EscOk("\r", 1)
         [] r[1] = "t" -> EscOk("\t", 1)
         [] r[1] = "u" ->
              IF Len(r) < 2 THEN EscErr("BadUnicodeEscape", 1)
              ELSE IF ~is_hex_digit(r[2]) THEN EscErr("BadUnicodeEscape", 2)
              ELSE scan_unicode(r, 2, 1, HexVal(r[2]))
         [] OTHER -> EscErr("InvalidEscape", 1)

\* the backslash is one more character consumed
after_backslash(e) == [e EXCEPT !.n = @ + 1]

\* one item of iter_unescape_string, for non-empty r: the result for the next
\* element and the number of characters it took
iter_unescape_string(r) ==
  CASE r[1] = "\\" -> after_backslash(scan_escape(Tail(r)))
    [] r[1] = "\"" -> EscErr("EscapeOnlyChar", 1)
    [] r[1] = "U+0008" -> EscErr("BareBackspace", 1)
    [] r[1] = "\f" -> EscErr("BareFormFeed", 1)
    [] r[1] = "\n" -> EscErr("BareLineFeed", 1)
    [] r[1] = "\r" -> EscErr("BareCarriageReturn", 1)
    [] r[1] = "\t" -> EscErr("BareHorizontalTab", 1)
    [] r[1] \in ControlChars -> EscErr("BadControlChar", 1)
    [] OTHER -> EscOk(r[1], 1)

Unescaped(str) == [ok |-> TRUE, str |-> str, err |-> "", lo |-> 0, hi |-> 0]

UnescapeErr(err, lo, hi) ==
  [ok |-> FALSE, str |-> <<>>, err |-> err, lo |-> lo, hi |-> hi]

RECURSIVE unescape_from(_, _, _)
RECURSIVE unescape_item(_, _, _, _)
\* the collect of unescape_string from character k on: acc is the decoded text
unescape_from(r, k, acc) ==
  IF k >= Len(r) THEN Unescaped(acc)
  ELSE unescape_item(r, k, acc, iter_unescape_string(SubSeq(r, k + 1, Len(r))))

\* an item whose error range ends after the first character of the element
unescape_item_first_char(r, k, acc, it) ==
  IF it.ok THEN unescape_from(r, k + it.n, Append(acc, it.ch))
  ELSE UnescapeErr(it.err, ByteLen(SubSeq(r, 1, k)), ByteLen(SubSeq(r, 1, k + 1)))

\* the item it, which began at character k: its range is in bytes
unescape_item(r, k, acc, it) ==
  IF it.ok THEN unescape_from(r, k + it.n, Append(acc, it.ch))
  ELSE UnescapeErr(it.err, ByteLen(SubSeq(r, 1, k)), ByteLen(SubSeq(r, 1, k + it.n)))

unescape_string(r) == unescape_from(r, 0, <<>>)

\* unescape_string not called yet, and called with its result
NotUnescaped == [called |-> FALSE, res |-> Unescaped(<<>>)]

UnescapedTo(res) == [called |-> TRUE, res |-> res]

\* impl From<EscapeError> for StrError
StrErrorFrom(e) == IF e = "LoneSlash" THEN "Unterminated" ELSE e

(***************************************************************************)
(* Number conversions used by the cooker: str::parse::<isize> and          *)
(* str::parse::<f64>.  An isize has 64 bits.  A converted integer is kept  *)
(* as its canonical decimal text (no '+', no leading zeros, no "-0"), a    *)
(* converted float as sign, significant digits and decimal exponent.       *)
(***************************************************************************)
\* the decimal digits of 2^63, the magnitude of isize::MIN
IsizeMinDigits ==
  <<"9", "2", "2", "3", "3", "7", "2", "0", "3", "6", "8", "5", "4", "7", "7",
    "5", "8", "0", "8">>

RECURSIVE StripZeros(_)
\* without leading zeros, but for the last digit
StripZeros(d) ==
  IF Len(d) > 1 /\ Head(d) = "0" THEN StripZeros(Tail(d)) ELSE d

RECURSIVE DigitsLess(_, _)
\* a < b for two digit texts of equal length
DigitsLess(a, b) ==
  IF a = <<>> THEN FALSE
  ELSE IF HexVal(Head(a)) # HexVal(Head(b)) THEN HexVal(Head(a)) < HexVal(Head(b))
  ELSE DigitsLess(Tail(a), Tail(b))

AllDigits(d) == \A k \in 1..Len(d) : d[k] \in Digits

\* the magnitude d (stripped) fits: d < 2^63, or d = 2^63 when negative
FitsIsize(neg, d) ==
  \/ Len(d) < Len(IsizeMinDigits)
  \/ /\ Len(d) = Len(IsizeMinDigits)
     /\ (DigitsLess(d, IsizeMinDigits) \/ (neg /\ d = IsizeMinDigits))

Converted(val) == [ok |-> TRUE, val |-> val]

NotConverted == [ok |-> FALSE, val |-> <<>>]

isize_digits(neg, body, d) ==
  IF body = <<>> \/ ~AllDigits(body) \/ ~FitsIsize(neg, d) THEN NotConverted
  ELSE Converted(IF neg /\ d # <<"0">> THEN <<"-">> \o d ELSE d)

isize_signed(neg, body) == isize_digits(neg, body, StripZeros(body))

\* <isize as FromStr>::from_str
parse_isize(slice) ==
  IF slice # <<>> /\ Head(slice) \in {"+", "-"}
  THEN isize_signed(Head(slice) = "-", Tail(slice))
  ELSE isize_signed(FALSE, slice)

RECURSIVE DigitRun(_)
\* the longest prefix of decimal digits
DigitRun(x) ==
  IF x # <<>> /\ Head(x) \in Digits THEN <<Head(x)>> \o DigitRun(Tail(x))
  ELSE <<>>

Drop(x, n) == SubSeq(x, n + 1, Len(x))

RECURSIVE StripTrailingZeros(_)
StripTrailingZeros(d) ==
  IF d # <<>> /\ d[Len(d)] = "0" THEN StripTrailingZeros(SubSeq(d, 1, Len(d) - 1))
  ELSE d

RECURSIVE StripLeadingZeros(_)
StripLeadingZeros(d) ==
  IF d # <<>> /\ Head(d) = "0" THEN StripLeadingZeros(Tail(d)) ELSE d

RECURSIVE SmallNat(_, _)
\* the value of a digit text, saturating at 9999
SmallNat(d, acc) ==
  IF d = <<>> THEN acc
  ELSE IF acc * 10 + HexVal(Head(d)) > 9999 THEN 9999
  ELSE SmallNat(Tail(d), acc * 10 + HexVal(Head(d)))

\* the double for the significant digits sig (no leading zeros) whose first
\* digit has the decimal weight 10^(mag-1): a zero, an infinity beyond the
\* doubles' range, else its digits and magnitude
FloatOf(neg, sig, mag) ==
  IF sig = <<>> \/ mag < -323 THEN [neg |-> FALSE, digits |-> <<>>, exp |-> 0]
  ELSE IF mag > 309 THEN [neg |-> neg, digits |-> <<"inf">>, exp |-> 0]
  ELSE [neg |-> neg, digits |-> StripTrailingZeros(sig), exp |-> mag]

FloatValue(neg, ip, fp, e) ==
  FloatOf(neg, StripLeadingZeros(ip \o fp),
          Len(ip) - (Len(ip \o fp) - Len(StripLeadingZeros(ip \o fp))) + e)

f64_exp_digits(neg, ip, fp, eneg, r) ==
  IF r = <<>> \/ ~AllDigits(r) THEN NotConverted
  ELSE Converted(FloatValue(neg, ip, fp,
                            IF eneg THEN 0 - SmallNat(r, 0) ELSE SmallNat(r, 0)))

f64_exp(neg, ip, fp, r) ==
  IF Len(ip) + Len(fp) = 0 THEN NotConverted
  ELSE IF r = <<>> THEN Converted(FloatValue(neg, ip, fp, 0))
  ELSE IF Head(r) \notin {"e", "E"} THEN NotConverted
  ELSE IF Tail(r) # <<>> /\ Head(Tail(r)) \in {"+", "-"}
    THEN f64_exp_digits(neg, ip, fp, Head(Tail(r)) = "-", Tail(Tail(r)))
  ELSE f64_exp_digits(neg, ip, fp, FALSE, Tail(r))

f64_frac(neg, ip, fp, r) == f64_exp(neg, ip, fp, Drop(r, Len(fp)))

f64_dot(neg, ip, r) ==
  IF r # <<>> /\ Head(r) = "." THEN f64_frac(neg, ip, DigitRun(Tail(r)), Tail(r))
  ELSE f64_exp(neg, ip, <<>>, r)

f64_int(neg, ip, body) == f64_dot(neg, ip, Drop(body, Len(ip)))

f64_signed(neg, body) == f64_int(neg, DigitRun(body), body)

\* <f64 as FromStr>::from_str on decimal text (no "inf", no "nan")
parse_f64(slice) ==
  IF slice # <<>> /\ Head(slice) \in {"+", "-"}
  THEN f64_signed(Head(slice) = "-", Tail(slice))
  ELSE f64_signed(FALSE, slice)

(***************************************************************************)
(* Token cooker (lexer/mod.rs).  The Tokenizer is its running byte         *)
(* position and its Cursor.  A string slice that is out of range or off a  *)
(* character boundary, and an unwrap of a failed conversion, panic.        *)
(***************************************************************************)
Span(lo, hi) == [base |-> lo, len |-> hi - lo]

Token(kind, val, span) == [kind |-> kind, val |-> val, span |-> span]

TokenizerNew(s) == [pos |-> 0, cursor |-> CursorNew(s)]

\* &self.input[start..end]
str_from_to(s, start, end) ==
  IF start <= end /\ is_char_boundary(s, start) /\ is_char_boundary(s, end)
  THEN [ok |-> TRUE,
        str |-> SubSeq(s, CharsBefore(s, start) + 1, CharsBefore(s, end))]
  ELSE [ok |-> FALSE, str |-> <<>>]

str_from(s, tz, start) == str_from_to(s, start, tz.pos)

Cooked(kind, val) == [ok |-> TRUE, kind |-> kind, val |-> val]

CookPanic == [ok |-> FALSE, kind |-> "Unknown", val |-> <<>>]

\* Result::unwrap of a conversion
unwrap(kind, r) == IF r.ok THEN Cooked(kind, r.val) ELSE CookPanic

ident_kind(slice) ==
  IF ~slice.ok THEN CookPanic
  ELSE CASE slice.str = <<"t", "r", "u", "e">> -> Cooked("True", <<>>)
         [] slice.str = <<"f", "a", "l", "s", "e">> -> Cooked("False", <<>>)
         [] slice.str = <<"n", "u", "l", "l">> -> Cooked("Null", <<>>)
         [] OTHER -> Cooked("InvalidIdent", slice.str)

cook_base_ident(s, tz, start) == ident_kind(str_from(s, tz, start))

integer_kind(slice) ==
  IF ~slice.ok THEN CookPanic ELSE unwrap("Int", parse_isize(slice.str))

cook_base_integer(s, tz, start) == integer_kind(str_from(s, tz, start))

decimal_kind(slice) ==
  IF ~slice.ok THEN CookPanic ELSE unwrap("Float", parse_f64(slice.str))

cook_base_decimal(s, tz, start) == decimal_kind(str_from(s, tz, start))

InvalidStr(err, offset) == Cooked("InvalidStr", [err |-> err, offset |-> offset])

\* the offset given with Unterminated
unterminated_offset(tz, start) == tz.pos

\* an offset counted from the contents, not from the opening quote
escape_offset_in_contents(range_start) == range_start

\* the offset given with an unescape error at range
escape_offset(range_start) == range_start + 1

unescaped_kind(u) ==
  IF u.ok THEN Cooked("Str", u.str)
  ELSE InvalidStr(StrErrorFrom(u.err), escape_offset(u.lo))

quoted_string_kind(slice) ==
  IF ~slice.ok THEN CookPanic ELSE unescaped_kind(unescape_string(slice.str))

\* a cooker that unescapes without looking at terminated
cook_base_quoted_string_unchecked(s, tz, start, terminated) ==
  quoted_string_kind(str_from_to(s, start + 1, tz.pos - 1))

cook_base_quoted_string(s, tz, start, terminated) ==
  IF ~terminated THEN InvalidStr("Unterminated", unterminated_offset(tz, start))
  ELSE quoted_string_kind(str_from_to(s, start + 1, tz.pos - 1))

unknown_kind(slice) ==
  IF ~slice.ok THEN CookPanic ELSE Cooked("Unknown", slice.str)

cook_base_unknown(s, tz, start) == unknown_kind(str_from(s, tz, start))

\* the match of next_token on the raw kind; tz is the Tokenizer after the
\* lexeme, start the position before it
cook(s, tz, start, token) ==
  CASE token.kind = "Ident" -> cook_base_ident(s, tz, start)
    [] token.kind = "Int" -> cook_base_integer(s, tz, start)
    [] token.kind = "Float" -> cook_base_decimal(s, tz, start)
    [] token.kind = "Str" -> cook_base_quoted_string(s, tz, start, token.terminated)
    [] token.kind = "Unknown" -> cook_base_unknown(s, tz, start)
    [] OTHER -> Cooked(token.kind, <<>>)

\* what next_token returns: [ok, tok, ws, tz]; ~ok is a panic
next_token_return(k, start, tz, preceded_by_whitespace) ==
  [ok |-> k.ok,
   tok |-> Token(k.kind, k.val, Span(start, tz.pos)),
   ws |-> preceded_by_whitespace,
   tz |-> tz]

\* self.pos = self.pos + token.len, with the cursor after the lexeme
tokenizer_after(tz, token) == [pos |-> tz.pos + token.len, cursor |-> token.cur]

RECURSIVE next_token_loop(_, _, _)
RECURSIVE next_token_lexeme(_, _, _, _)
\* one turn of the loop of Tokenizer::next_token
next_token_loop(s, tz, preceded_by_whitespace) ==
  next_token_lexeme(s, tz, preceded_by_whitespace, advance_token(s, tz.cursor))

next_token_lexeme(s, tz, preceded_by_whitespace, token) ==
  IF token.kind = "Whitespace"
  THEN next_token_loop(s, tokenizer_after(tz, token), TRUE)
  ELSE next_token_return(cook(s, tokenizer_after(tz, token), tz.pos, token),
                         tz.pos, tokenizer_after(tz, token), preceded_by_whitespace)

next_token(s, tz) == next_token_loop(s, tz, FALSE)

(***************************************************************************)
(* impl Iterator for Tokenizer, and the Peekable the parser wraps it in.   *)
(* m = [tz, pk, fetched] is the part of the parser that pulls tokens:      *)
(* fetched records every item the Tokenizer iterator has returned.  The    *)
(* items a step of the parser can pull (at most two) are computed once     *)
(* for the step and handed down as `up`.                                   *)
(***************************************************************************)
NoToken == Token("Eof", <<>>, Span(0, 0))

None == [some |-> FALSE, tok |-> NoToken]

Some(tok) == [some |-> TRUE, tok |-> tok]

NoPeek == [has |-> FALSE, item |-> None]

\* Tokenizer::next: Eof becomes None
IterItem(from, r) ==
  [from |-> from, ok |-> r.ok,
   item |-> IF r.tok.kind = "Eof" THEN None ELSE Some(r.tok),
   tz |-> r.tz]

IterNext(s, tz) == IterItem(tz, next_token(s, tz))

UpcomingAfter(s, p) == <<p, IterNext(s, p.tz)>>

\* the next two results of Tokenizer::next from tz on
Upcoming(s, tz) == UpcomingAfter(s, IterNext(s, tz))

\* the result of Tokenizer::next in the state m.tz
Pulled(m, up) == IF up[1].from = m.tz THEN up[1] ELSE up[2]

PulledInto(m, r) ==
  [ok |-> r.ok, item |-> r.item,
   m |-> [m EXCEPT !.tz = r.tz, !.fetched = Append(@, r.item)]]

PeekedInto(r) == [r EXCEPT !.m.pk = [has |-> TRUE, item |-> r.item]]

\* Peekable::peek under Parser::peek
PkPeek(m, up) ==
  IF m.pk.has THEN [ok |-> TRUE, item |-> m.pk.item, m |-> m]
  ELSE PeekedInto(PulledInto(m, Pulled(m, up)))

\* Peekable::next under Parser::next
PkNext(m, up) ==
  IF m.pk.has THEN [ok |-> TRUE, item |-> m.pk.item, m |-> [m EXCEPT !.pk = NoPeek]]
  ELSE PulledInto(m, Pulled(m, up))

(***************************************************************************)
(* ParseError (parser.rs).                                                 *)
(***************************************************************************)
ParseError(kind, tkind, val, reason, span) ==
  [kind |-> kind, tkind |-> tkind, val |-> val, reason |-> reason, span |-> span]

NoError == ParseError("", "", <<>>, "", Span(0, 0))

\* UnexpectedEof spanning the whole input
unexpected_eof_whole(s) ==
  ParseError("UnexpectedEof", "", <<>>, "", Span(0, ByteLen(s)))

unexpected_eof(s) ==
  ParseError("UnexpectedEof", "", <<>>, "", Span(ByteLen(s), ByteLen(s)))

\* UnexpectedContinuation at the start of the token, without its extent
unexpected_continuation_at_start(token) ==
  ParseError("UnexpectedContinuation", token.kind, token.val, "",
             Span(token.span.base, token.span.base))

unexpected_continuation(token) ==
  ParseError("UnexpectedContinuation", token.kind, token.val, "", token.span)

\* the span from_token gives an InvalidStr error
invalid_str_span(token) ==
  Span(token.span.base + token.val.offset, token.span.base + token.val.offset)

\* every token reported as UnexpectedToken
from_token_unexpected(token) ==
  ParseError("UnexpectedToken", token.kind, token.val, "", token.span)

from_token(token) ==
  CASE token.kind = "InvalidStr" ->
         ParseError("InvalidStr", "", <<>>, token.val.err, invalid_str_span(token))
    [] token.kind = "InvalidIdent" ->
         ParseError("InvalidIdent", "", token.val, "", token.span)
    [] token.kind = "Unknown" ->
         ParseError("UnknownToken", "", token.val, "", token.span)
    [] token.kind = "Eof" -> ParseError("UnexpectedEof", "", <<>>, "", token.span)
    [] OTHER -> ParseError("UnexpectedToken", token.kind, token.val, "", token.span)

(***************************************************************************)
(* Parser (parser.rs).  The call stack of the recursive descent is kept as *)
(* a stack of frames, the Nodes returned by finished calls on vals.  A     *)
(* step's outcome is the new puller, stack, vals and result.               *)
(***************************************************************************)
Node(t, v) == [t |-> t, v |-> v]

NoNode == Node("", <<>>)

Frame(f, acc, key) == [f |-> f, acc |-> acc, key |-> key]

Call(f) == Frame(f, <<>>, <<>>)

Running == [status |-> "running", node |-> NoNode, err |-> NoError]

Go(m, st, vs) == [m |-> m, stack |-> st, vals |-> vs, result |-> Running]

\* a failure that hands back a Node with the error
Fail_with_node(m, e) ==
  [m |-> m, stack |-> <<>>, vals |-> <<>>,
   result |-> [status |-> "err", node |-> Node("Null", <<>>), err |-> e]]

Fail(m, e) ==
  [m |-> m, stack |-> <<>>, vals |-> <<>>,
   result |-> [status |-> "err", node |-> NoNode, err |-> e]]

Return(m, node) ==
  [m |-> m, stack |-> <<>>, vals |-> <<>>,
   result |-> [status |-> "ok", node |-> node, err |-> NoError]]

Panic(m) ==
  [m |-> m, stack |-> <<>>, vals |-> <<>>,
   result |-> [status |-> "panic", node |-> NoNode, err |-> NoError]]

Expected(s, n, kinds) ==
  IF ~n.ok THEN [st |-> "panic", m |-> n.m, tok |-> NoToken, err |-> NoError]
  ELSE IF ~n.item.some
    THEN [st |-> "err", m |-> n.m, tok |-> NoToken, err |-> unexpected_eof(s)]
  ELSE IF n.item.tok.kind \in kinds
    THEN [st |-> "ok", m |-> n.m, tok |-> n.item.tok, err |-> NoError]
  ELSE [st |-> "err", m |-> n.m, tok |-> n.item.tok, err |-> from_token(n.item.tok)]

\* Parser::next followed by a match on the kind, as in eat_comma, string, ...:
\* [st, m, tok, err] with st one of "ok", "err", "panic"
Expect(s, m, up, kinds) == Expected(s, PkNext(m, up), kinds)

Stopped(x) == IF x.st = "panic" THEN Panic(x.m) ELSE Fail(x.m, x.err)

ScalarKinds == {"Str", "Int", "Float", "True", "False", "Null"}

\* string, integer, float, ident_true, ident_false, ident_null
scalar(x, rest, vs) ==
  IF x.st = "ok" THEN Go(x.m, rest, <<Node(x.tok.kind, x.tok.val)>> \o vs)
  ELSE Stopped(x)

\* the match of Parser::value on the peeked token
value_match(s, p, up, rest, vs) ==
  IF ~p.ok THEN Panic(p.m)
  ELSE IF ~p.item.some THEN Fail(p.m, unexpected_eof(s))
  ELSE IF p.item.tok.kind = "OpenBracket" THEN Go(p.m, <<Call("object")>> \o rest, vs)
  ELSE IF p.item.tok.kind = "OpenSquare" THEN Go(p.m, <<Call("array")>> \o rest, vs)
  ELSE IF p.item.tok.kind \in ScalarKinds
    THEN scalar(Expect(s, p.m, up, {p.item.tok.kind}), rest, vs)
  ELSE Fail(p.m, from_token(p.item.tok))

value(s, m, up, rest, vs) == value_match(s, PkPeek(m, up), up, rest, vs)

\* eat_close_bracket and Ok(Node::Object(items))
object_close(c, items, rest, vs) ==
  IF c.st = "ok" THEN Go(c.m, rest, <<Node("Object", items)>> \o vs)
  ELSE Stopped(c)

\* the match of Parser::object on the peeked token
object_match(s, p, up, rest, vs) ==
  IF ~p.ok THEN Panic(p.m)
  ELSE IF ~p.item.some THEN Fail(p.m, unexpected_eof(s))
  ELSE IF p.item.tok.kind = "CloseBracket"
    THEN object_close(Expect(s, p.m, up, {"CloseBracket"}), <<>>, rest, vs)
  ELSE Go(p.m, <<Call("member")>> \o rest, vs)

object_open(s, o, up, rest, vs) ==
  IF o.st # "ok" THEN Stopped(o)
  ELSE object_match(s, PkPeek(o.m, up), up, rest, vs)

\* Parser::object up to its call of members
object(s, m, up, rest, vs) ==
  object_open(s, Expect(s, m, up, {"OpenBracket"}), up, rest, vs)

member_colon(c, key, acc, rest, vs) ==
  IF c.st # "ok" THEN Stopped(c)
  ELSE Go(c.m, <<Call("value"), Frame("members", acc, key)>> \o rest, vs)

member_key(s, k, up, acc, rest, vs) ==
  IF k.st # "ok" THEN Stopped(k)
  ELSE member_colon(Expect(s, k.m, up, {"Colon"}), k.tok.val, acc, rest, vs)

\* Parser::member up to its call of value
member(s, m, up, frame, rest, vs) ==
  member_key(s, Expect(s, m, up, {"Str"}), up, frame.acc, rest, vs)

members_comma(e, acc, rest, vs) ==
  IF e.st = "ok" THEN Go(e.m, <<Frame("member", acc, <<>>)>> \o rest, vs)
  ELSE Stopped(e)

\* the match of the loop of Parser::members on the peeked token
members_match(s, p, up, acc, rest, vs) ==
  IF ~p.ok THEN Panic(p.m)
  ELSE IF ~p.item.some THEN Fail(p.m, unexpected_eof(s))
  ELSE IF p.item.tok.kind = "CloseBracket"
    THEN object_close(Expect(s, p.m, up, {"CloseBracket"}), acc, rest, vs)
  ELSE members_comma(Expect(s, p.m, up, {"Comma"}), acc, rest, vs)

\* members that keep one pair per key, the last one
members_overwriting(s, m, up, frame, rest, vs) ==
  members_match(s, PkPeek(m, up), up,
                Append(SelectSeq(frame.acc, LAMBDA e : e[1] # frame.key),
                       <<frame.key, Head(vs)>>),
                rest, Tail(vs))

\* Parser::member's return, one turn of the loop of Parser::members, and the
\* end of Parser::object when the loop breaks
members(s, m, up, frame, rest, vs) ==
  members_match(s, PkPeek(m, up), up,
                Append(frame.acc, <<frame.key, Head(vs)>>), rest, Tail(vs))

\* the token kind Parser::array takes for an empty array
ArrayEmptyKind == "CloseBracket"

\* eat_close_square and Ok(Node::Array(items))
array_close(c, items, rest, vs) ==
  IF c.st = "ok" THEN Go(c.m, rest, <<Node("Array", items)>> \o vs)
  ELSE Stopped(c)

\* the match of Parser::array on the peeked token
array_match(s, p, up, rest, vs) ==
  IF ~p.ok THEN Panic(p.m)
  ELSE IF ~p.item.some THEN Fail(p.m, unexpected_eof(s))
  ELSE IF p.item.tok.kind = ArrayEmptyKind
    THEN array_close(Expect(s, p.m, up, {"CloseSquare"}), <<>>, rest, vs)
  ELSE Go(p.m, <<Call("value"), Call("elements")>> \o rest, vs)

array_open(s, o, up, rest, vs) ==
  IF o.st # "ok" THEN Stopped(o)
  ELSE array_match(s, PkPeek(o.m, up), up, rest, vs)

\* Parser::array up to its call of elements
array(s, m, up, rest, vs) ==
  array_open(s, Expect(s, m, up, {"OpenSquare"}), up, rest, vs)

\* a comma after which the element may be missing
elements_comma_dangling(e, acc, rest, vs) ==
  IF e.st = "ok"
  THEN Go(e.m, <<Frame("elements", acc, <<>>)>> \o rest, <<NoNode>> \o vs)
  ELSE Stopped(e)

elements_comma(e, acc, rest, vs) ==
  IF e.st = "ok"
  THEN Go(e.m, <<Call("value"), Frame("elements", acc, <<>>)>> \o rest, vs)
  ELSE Stopped(e)

\* the match of the loop of Parser::elements on the peeked token
elements_match(s, p, up, acc, rest, vs) ==
  IF ~p.ok THEN Panic(p.m)
  ELSE IF ~p.item.some THEN Fail(p.m, unexpected_eof(s))
  ELSE IF p.item.tok.kind = "CloseSquare"
    THEN array_close(Expect(s, p.m, up, {"CloseSquare"}), acc, rest, vs)
  ELSE elements_comma(Expect(s, p.m, up, {"Comma"}), acc, rest, vs)

\* the return of a value to Parser::elements, one turn of its loop, and the
\* end of Parser::array when the loop breaks
elements(s, m, up, frame, rest, vs) ==
  elements_match(s, PkPeek(m, up), up, Append(frame.acc, Head(vs)), rest, Tail(vs))

\* an end that lets leftover tokens pass
end_match_lenient(n, vs) ==
  IF ~n.ok THEN Panic(n.m) ELSE Return(n.m, Head(vs))

end_match(n, vs) ==
  IF ~n.ok THEN Panic(n.m)
  ELSE IF ~n.item.some THEN Return(n.m, Head(vs))
  ELSE Fail(n.m, unexpected_continuation(n.item.tok))

\* Parser::end and the Ok(node) of Parser::parse
end(s, m, up, rest, vs) == end_match(PkNext(m, up), vs)

(***************************************************************************)
(* Source texts.  A text is an opening (nothing, or the start of a nest of *)
(* containers or of a string) followed by up to MaxWords words.  The words *)
(* are the lexemes of the grammar and the pieces invalid lexemes are made  *)
(* of; written one after the other they also join (a quote and a           *)
(* lone-surrogate escape and a quote make a string, "0" and ".5" a float,  *)
(* "true" twice an identifier).                                            *)
(***************************************************************************)
MaxWords == 2

BigInt == [k \in 1..20 |-> "9"]

Words ==
  { <<"[">>, <<"]">>, <<"{">>, <<"}">>, <<":">>, <<",">>, <<" ">>,
    <<"0">>, <<".", "5">>, <<"-">>, BigInt,
    <<"t", "r", "u", "e">>,
    <<"\"", "a", "\"">>, <<"\"">>, <<"\\", "u", "D", "F", "F", "F">> }

Prefixes ==
  { <<>>,
    <<"[">>,
    <<"[", "0", ",">>,
    <<"[", "\"", "a">>,
    <<"[", "{", "}">>,
    <<"[", "[", "0", "]", ",">>,
    <<"{", "\"", "a", "\"", ":">>,
    <<"{", "\"", "a", "\"", ":", "0", ",">>,
    <<"{", "\"", "a", "\"", ":", "[">>,
    <<"{", "\"", "a", "\"", ":", "0", ",", "\"", "a", "\"", ":">> }

RECURSIVE WordSeqs(_)
\* the texts made of at most n words
WordSeqs(n) ==
  IF n = 0 THEN {<<>>}
  ELSE WordSeqs(n - 1) \cup {x \o w : x \in WordSeqs(n - 1), w \in Words}

ParseInputs == {p \o x : p \in Prefixes, x \in WordSeqs(MaxWords)}

(***************************************************************************)
(* The state machine of one call of parse(input).                          *)
(***************************************************************************)
\* parse / Parser::new / Parser::parse: json() then end()
ParserNew(s) ==
  [m |-> [tz |-> TokenizerNew(s), pk |-> NoPeek, fetched |-> <<>>],
   stack |-> <<Call("value"), Call("end")>>,
   vals |-> <<>>,
   result |-> Running]

InitOn(s) ==
  /\ input = s
  /\ tokenizer = ParserNew(s).m.tz
  /\ peeked = ParserNew(s).m.pk
  /\ fetched = ParserNew(s).m.fetched
  /\ stack = ParserNew(s).stack
  /\ vals = ParserNew(s).vals
  /\ result = ParserNew(s).result
  /\ nerrors = 0
  /\ lexer = TokenizerNew(s)
  /\ toks = <<>>
  /\ calls = <<>>
  /\ unescaper = NotUnescaped

Init == \E s \in ParseInputs : InitOn(s)

Puller == [tz |-> tokenizer, pk |-> peeked, fetched |-> fetched]

Top(f) == result.status = "running" /\ stack # <<>> /\ Head(stack).f = f

Becomes(out) ==
  /\ tokenizer' = out.m.tz
  /\ peeked' = out.m.pk
  /\ fetched' = out.m.fetched
  /\ stack' = out.stack
  /\ vals' = out.vals
  /\ result' = out.result
  /\ nerrors' = IF out.result.status = "err" THEN nerrors + 1 ELSE nerrors
  /\ UNCHANGED <<input, lexer, toks, calls, unescaper>>

Value ==
  /\ Top("value")
  /\ Becomes(value(input, Puller, Upcoming(input, tokenizer), Tail(stack), vals))

Object ==
  /\ Top("object")
  /\ Becomes(object(input, Puller, Upcoming(input, tokenizer), Tail(stack), vals))

Member ==
  /\ Top("member")
  /\ Becomes(member(input, Puller, Upcoming(input, tokenizer), Head(stack),
                    Tail(stack), vals))

Members ==
  /\ Top("members")
  /\ Becomes(members(input, Puller, Upcoming(input, tokenizer), Head(stack),
                     Tail(stack), vals))

Array ==
  /\ Top("array")
  /\ Becomes(array(input, Puller, Upcoming(input, tokenizer), Tail(stack), vals))

Elements ==
  /\ Top("elements")
  /\ Becomes(elements(input, Puller, Upcoming(input, tokenizer), Head(stack),
                      Tail(stack), vals))

End ==
  /\ Top("end")
  /\ Becomes(end(input, Puller, Upcoming(input, tokenizer), Tail(stack), vals))

Next == Value \/ Object \/ Member \/ Members \/ Array \/ Elements \/ End

Spec == Init /\ [][Next]_vars

(***************************************************************************)
(* The state machine of a Tokenizer that is asked for token after token,   *)
(* as lexer::tokenize and the tokenizer tests do.  toks records what each  *)
(* call returned, and the cursor's character index before the call.        *)
(***************************************************************************)
MaxFrags == 4

\* calls made after the first Eof
MaxEofCalls == 1

Frags ==
  { <<"\"">>, <<"\\">>, <<"u", "D", "F", "F", "F">>, <<"0">>, <<"-">>,
    <<",">>, <<" ">>, <<"\n">>, <<"U+00E9">> }

RECURSIVE FragSeqs(_)
\* the texts made of at most n fragments
FragSeqs(n) ==
  IF n = 0 THEN {<<>>}
  ELSE FragSeqs(n - 1) \cup {x \o w : x \in FragSeqs(n - 1), w \in Frags}

LexInputs == FragSeqs(MaxFrags)

InitLex == \E s \in LexInputs : InitOn(s)

Returned(r, i0) == [ok |-> r.ok, tok |-> r.tok, ws |-> r.ws, i0 |-> i0, i1 |-> r.tz.cursor.i]

EofCalls == Cardinality({k \in 1..Len(toks) : toks[k].tok.kind = "Eof"})

Panicked == \E k \in 1..Len(toks) : ~toks[k].ok

NextTokenReturns(r) ==
  /\ toks' = Append(toks, Returned(r, lexer.cursor.i))
  /\ lexer' = r.tz

\* one call of Tokenizer::next_token
NextToken ==
  /\ ~Panicked
  /\ EofCalls <= MaxEofCalls
  /\ NextTokenReturns(next_token(input, lexer))
  /\ UNCHANGED <<input, tokenizer, peeked, stack, vals, result, fetched, nerrors,
               calls, unescaper>>

NextLex == NextToken

SpecLex == InitLex /\ [][NextLex]_vars

(***************************************************************************)
(* The same Tokenizer on number texts: up to MaxNumFrags pieces of         *)
(* numbers, one of them the digits of 2^63, the first magnitude an isize   *)
(* holds only with a minus sign.                                           *)
(***************************************************************************)
MaxNumFrags == 4

NumFrags ==
  { <<"0">>, <<"1">>, <<"-">>, <<".">>, <<"e">>, <<"+">>, IsizeMinDigits }

RECURSIVE NumSeqs(_)
\* the texts made of at most n pieces
NumSeqs(n) ==
  IF n = 0 THEN {<<>>}
  ELSE NumSeqs(n - 1) \cup {x \o w : x \in NumSeqs(n - 1), w \in NumFrags}

NumInputs == NumSeqs(MaxNumFrags)

InitNum == \E s \in NumInputs : InitOn(s)

SpecNum == InitNum /\ [][NextLex]_vars

(***************************************************************************)
(* unescape_string called on a string content: a text of up to MaxRaw      *)
(* pieces.                                                                 *)
(***************************************************************************)
MaxRaw == 4

RawFrags ==
  { <<"\\">>, <<"\\", "u">>, <<"\"">>, <<"\\", "n">>, <<"\n">>,
    <<"U+00E9">>, <<"U+0000">>, <<"0", "0">>, <<"0", "0", "4", "1">>,
    <<"D", "F", "F", "F">> }

RECURSIVE RawSeqs(_)
\* the texts made of at most n pieces
RawSeqs(n) ==
  IF n = 0 THEN {<<>>}
  ELSE RawSeqs(n - 1) \cup {x \o w : x \in RawSeqs(n - 1), w \in RawFrags}

RawInputs == RawSeqs(MaxRaw)

InitRaw == \E s \in RawInputs : InitOn(s)

\* the call unescape_string(input)
Unescape ==
  /\ ~unescaper.called
  /\ unescaper' = UnescapedTo(unescape_string(input))
  /\ UNCHANGED <<input, tokenizer, peeked, stack, vals, result, fetched,
                 nerrors, lexer, toks, calls>>

NextRaw == Unescape

SpecUnescape == InitRaw /\ [][NextRaw]_vars

(***************************************************************************)
(* The state machine of a program that calls parse several times, on the   *)
(* same or on other texts.  Each call builds its Parser from its input     *)
(* alone; calls records the input and the result of the calls that         *)
(* returned.                                                               *)
(***************************************************************************)
\* calls made after the first one
MaxCalls == 2

CallInputs ==
  { <<>>,
    <<"0">>,
    <<"0", " ", "0">>,
    <<"[">>,
    <<"[", "]">>,
    <<"[", "0", ",", "0", "]">>,
    <<"{", "\"", "a", "\"", ":", "0", "}">>,
    <<"\"", "\\", "u", "D", "F", "F", "F", "\"">> }

InitCalls == \E s \in CallInputs : InitOn(s)

\* a Parser that takes over what the last call had peeked
NewCall_keeping_peeked(s) == [ParserNew(s) EXCEPT !.m.pk = peeked]

\* let mut parser = Parser::new(input)
NewCall(s) == ParserNew(s)

Returning == [input |-> input, result |-> result]

CallOn(s, new) ==
  /\ input' = s
  /\ tokenizer' = new.m.tz
  /\ peeked' = new.m.pk
  /\ fetched' = new.m.fetched
  /\ stack' = new.stack
  /\ vals' = new.vals
  /\ result' = new.result
  /\ nerrors' = 0
  /\ calls' = Append(calls, Returning)

\* parse returns and the program calls it again
ParseAgain ==
  /\ result.status \in {"ok", "err"}
  /\ Len(calls) < MaxCalls
  /\ \E s \in CallInputs : CallOn(s, NewCall(s))
  /\ UNCHANGED <<lexer, toks, unescaper>>

NextCalls ==
  \/ Value \/ Object \/ Member \/ Members \/ Array \/ Elements \/ End
  \/ ParseAgain

SpecCalls == InitCalls /\ [][NextCalls]_vars

(***************************************************************************)
(* The token sequence of a text and the grammar of section 4.4 of the      *)
(* specification, against which the parser's answers are compared.         *)
(***************************************************************************)
RECURSIVE TokensFrom(_, _, _)
\* the tokens before Eof, or before the call that panics
TokensFrom(s, r, acc) ==
  IF ~r.ok THEN [ok |-> FALSE, toks |-> acc]
  ELSE IF r.tok.kind = "Eof" THEN [ok |-> TRUE, toks |-> acc]
  ELSE TokensFrom(s, next_token(s, r.tz), Append(acc, r.tok))

\* lexer::tokenize, collected
tokenize(s) == TokensFrom(s, next_token(s, TokenizerNew(s)), <<>>)

RefFail == [ok |-> FALSE, node |-> NoNode, next |-> 0]

RefOk(node, next) == [ok |-> TRUE, node |-> node, next |-> next]

KindAt(ts, i) == IF i <= Len(ts) THEN ts[i].kind ELSE "Eof"

RECURSIVE RefValue(_, _)
RECURSIVE RefElements(_, _, _)
RECURSIVE RefMembers(_, _, _)

\* elements := value (',' value)* ']'
RefElementsAfter(ts, v, acc) ==
  IF ~v.ok THEN RefFail
  ELSE IF KindAt(ts, v.next) = "Comma"
    THEN RefElements(ts, v.next + 1, Append(acc, v.node))
  ELSE IF KindAt(ts, v.next) = "CloseSquare"
    THEN RefOk(Node("Array", Append(acc, v.node)), v.next + 1)
  ELSE RefFail

RefElements(ts, i, acc) == RefElementsAfter(ts, RefValue(ts, i), acc)

\* members := Str ':' value (',' Str ':' value)* '}'
RefMembersAfter(ts, key, v, acc) ==
  IF ~v.ok THEN RefFail
  ELSE IF KindAt(ts, v.next) = "Comma"
    THEN RefMembers(ts, v.next + 1, Append(acc, <<key, v.node>>))
  ELSE IF KindAt(ts, v.next) = "CloseBracket"
    THEN RefOk(Node("Object", Append(acc, <<key, v.node>>)), v.next + 1)
  ELSE RefFail

RefMembers(ts, i, acc) ==
  IF KindAt(ts, i) = "Str" /\ KindAt(ts, i + 1) = "Colon"
  THEN RefMembersAfter(ts, ts[i].val, RefValue(ts, i + 2), acc)
  ELSE RefFail

\* value := object | array | Str | Int | Float | True | False | Null
RefValue(ts, i) ==
  CASE KindAt(ts, i) \in ScalarKinds -> RefOk(Node(ts[i].kind, ts[i].val), i + 1)
    [] KindAt(ts, i) = "OpenSquare" ->
         IF KindAt(ts, i + 1) = "CloseSquare" THEN RefOk(Node("Array", <<>>), i + 2)
         ELSE RefElements(ts, i + 1, <<>>)
    [] KindAt(ts, i) = "OpenBracket" ->
         IF KindAt(ts, i + 1) = "CloseBracket" THEN RefOk(Node("Object", <<>>), i + 2)
         ELSE RefMembers(ts, i + 1, <<>>)
    [] OTHER -> RefFail

RefWhole(ts, r) == IF r.ok /\ r.next = Len(ts) + 1 THEN r ELSE RefFail

\* json := value, then the end of the tokens
RefParse(ts) == RefWhole(ts, RefValue(ts, 1))

Done == result.status # "running"

Last(q) == q[Len(q)]

Openers == {"OpenSquare", "OpenBracket"}

Closers == {"CloseSquare", "CloseBracket"}

(***************************************************************************)
(* Properties of parse (checked on Spec).                                  *)
(***************************************************************************)
C1_Accepts(ts, ref) ==
  (ts.ok /\ ref.ok) => (result.status = "ok" /\ result.node = ref.node)

C1_AcceptsTokens(ts) == C1_Accepts(ts, RefParse(ts.toks))

\* C1: when the tokens of the input are a sentence of the grammar (a value,
\* an object '{' members? '}', an array '[' elements? ']', then the end),
\* parse returns Ok with the Node the grammar builds.
C1_GrammarInputParses == Done => C1_AcceptsTokens(tokenize(input))

C2_Sentence(ts) == ts.ok /\ RefParse(ts.toks).ok

\* C2: parse returns Ok only when the complete token sequence of the input
\* is a sentence of the grammar; every other input ends in an error.
C2_OkOnlyForSentences == result.status = "ok" => C2_Sentence(tokenize(input))

C2_Witness ==
  /\ result.status = "ok"
  /\ result.node.t = "Array"
  /\ Len(result.node.v) = 2

\* the item Parser::next returns in the current state
NextItem(n) == IF peeked.has THEN peeked.item ELSE n.item

C3_Continuation(item) ==
  /\ result'.status = "err"
  /\ result'.err.kind = "UnexpectedContinuation"
  /\ result'.err.tkind = item.tok.kind
  /\ result'.err.val = item.tok.val
  /\ result'.err.span = item.tok.span

C3_Step(n) ==
  (Top("end") /\ (peeked.has \/ n.ok) /\ NextItem(n).some)
    => C3_Continuation(NextItem(n))

\* C3: once the top-level value has been parsed, a token that remains makes
\* parse fail with UnexpectedContinuation carrying that token's kind and span.
C3_LeftoverToken == [][C3_Step(IterNext(input, tokenizer))]_vars

C3_Witness ==
  /\ result.status = "err"
  /\ result.err.kind = "UnexpectedContinuation"
  /\ result.err.tkind = "True"
  /\ result.err.span.base > 0

C4_EofError ==
  /\ result.status = "err"
  /\ result.err.kind = "UnexpectedEof"
  /\ result.err.span = [base |-> ByteLen(input), len |-> 0]

\* C4: when the tokens run out where a production needs one, parse fails with
\* UnexpectedEof and the empty span at the end of the input, [len, len); the
\* only other outcome of running out of tokens is Ok, at the end of a parse.
\* The empty input fails with UnexpectedEof at [0, 0).
C4_ExhaustedStream ==
  /\ (fetched # <<>> /\ ~Last(fetched).some) => (result.status = "ok" \/ C4_EofError)
  /\ (Done /\ input = <<>>) => C4_EofError

C4_Witness ==
  /\ C4_EofError
  /\ result.err.span.base > 1
  /\ Last(input) = " "

EscapeFailure ==
  /\ result.status = "err"
  /\ result.err.kind = "InvalidStr"
  /\ result.err.reason # "Unterminated"

\* the text between the quotes of a string token
Contents(tok) == str_from_to(input, tok.span.base + 1, tok.span.base + tok.span.len - 1).str

\* the n characters of the input from byte offset b on
CharsAt(b, n) == SubSeq(input, CharsBefore(input, b) + 1, CharsBefore(input, b) + n)

IsUnicodeEscape(x) ==
  /\ Len(x) = 6
  /\ x[1] = "\\"
  /\ x[2] = "u"
  /\ \A k \in 3..6 : x[k] \in Digits \cup HexLetters

C5_AtElement(tok, u) ==
  /\ result.err.span.base = tok.span.base + 1 + u.lo
  /\ result.err.reason = "LoneSurrogateUnicodeEscape"
       => IsUnicodeEscape(CharsAt(result.err.span.base, 6))

C5_Covers(tok, u) ==
  /\ C5_AtElement(tok, u)
  /\ result.err.span.len = u.hi - u.lo
  /\ result.err.reason = "LoneSurrogateUnicodeEscape" => result.err.span.len = 6

C5_Empty(tok, u) ==
  /\ C5_AtElement(tok, u)
  /\ result.err.span.len = 0

C5_CoversIn(tok) == C5_Covers(tok, unescape_string(Contents(tok)))

C5_EmptyIn(tok) == C5_Empty(tok, unescape_string(Contents(tok)))

\* C5 as stated: the span of an InvalidStr error for a failing escape covers
\* the offending element of the source (six bytes for a lone surrogate).
C5_SpanCoversElement == EscapeFailure => C5_CoversIn(Last(fetched).tok)

\* C5: the span of an InvalidStr error for a failing escape is the empty span
\* at the absolute offset where the offending element starts (the backslash
\* of the six characters of a lone-surrogate escape).
C5_SpanAtElement == EscapeFailure => C5_EmptyIn(Last(fetched).tok)

C5_Witness ==
  /\ EscapeFailure
  /\ result.err.reason = "LoneSurrogateUnicodeEscape"
  /\ Last(fetched).tok.span.base > 0

\* C6: the span of every error parse returns lies inside the input,
\* base + len <= input.len().
C6_ErrorSpanInInput ==
  result.status = "err" => result.err.span.base + result.err.span.len <= ByteLen(input)

BuiltFrom(tok) ==
  /\ result.status = "err"
  /\ result.err.kind = "UnexpectedToken"
  /\ result.err.tkind = tok.kind
  /\ result.err.span = tok.span

\* a comma inside a container that is directly followed by a closing token
Dangling(ts, k) ==
  /\ ts[k].kind = "Comma"
  /\ ts[k + 1].kind \in Closers
  /\ \E j \in 1..(k - 1) : ts[j].kind \in Openers

C9_FailsAtCloser(ts) ==
  (\E k \in 1..(Len(ts) - 1) : Dangling(ts, k))
    => \E k \in 1..(Len(ts) - 1) : Dangling(ts, k) /\ BuiltFrom(ts[k + 1])

\* C9 as stated: for any input in which a comma inside an object or array is
\* directly followed by the closing '}' or ']', parse fails with an error
\* built from that closing token.
C9_CommaThenCloser == Done => C9_FailsAtCloser(tokenize(input).toks)

C9_AfterComma(k) ==
  (fetched[k].tok.kind = "Comma" /\ fetched[k + 1].some
     /\ fetched[k + 1].tok.kind \in Closers)
    => (k + 1 = Len(fetched) /\ BuiltFrom(fetched[k + 1].tok))

C9_AfterOpener(k) ==
  (fetched[k].tok.kind \in Openers /\ fetched[k + 1].some
     /\ fetched[k + 1].tok.kind = "Comma")
    => (k + 1 = Len(fetched) /\ BuiltFrom(fetched[k + 1].tok))

\* C9: a comma the parser has taken as the separator of a list must be
\* followed by a member or element: when the token after it is the closing
\* '}' or ']', parse fails with the error built from that closing token.  A
\* list that is not closed at once starts with a member or element: a comma
\* right after '{' or '[' fails with the error built from the comma.
C9_SeparatorNeedsEntry ==
  Done => \A k \in 1..(Len(fetched) - 1) : C9_AfterComma(k) /\ C9_AfterOpener(k)

C9_Witness ==
  /\ Done
  /\ Len(fetched) > 3
  /\ fetched[Len(fetched) - 1].tok.kind = "Comma"
  /\ Last(fetched).some
  /\ Last(fetched).tok.kind = "CloseBracket"

C10_Mapped(e, tok) ==
  /\ tok.kind = "InvalidStr" => (e.kind = "InvalidStr" /\ e.reason = tok.val.err)
  /\ tok.kind = "InvalidIdent" => (e.kind = "InvalidIdent" /\ e.val = tok.val)
  /\ tok.kind = "Unknown" => (e.kind = "UnknownToken" /\ e.val = tok.val)
  /\ tok.kind = "Eof" => e.kind = "UnexpectedEof"
  /\ tok.kind \notin {"InvalidStr", "InvalidIdent", "Unknown", "Eof"}
       => (e.kind = "UnexpectedToken" /\ e.tkind = tok.kind /\ e.val = tok.val)
  /\ tok.kind # "InvalidStr" => e.span = tok.span

\* C10: the error a production builds from a token it does not accept is
\* InvalidStr for InvalidStr (same reason), InvalidIdent for InvalidIdent
\* (same text), UnknownToken for Unknown (same text), UnexpectedEof for Eof,
\* and UnexpectedToken with the token's kind for every other kind; but for
\* InvalidStr its span is the token's span.
C10_ErrorFromToken ==
  /\ (result.status = "err" /\ result.err.kind # "UnexpectedContinuation"
        /\ Last(fetched).some)
       => C10_Mapped(result.err, Last(fetched).tok)
  /\ C10_Mapped(from_token(Token("Eof", <<>>, Span(ByteLen(input), ByteLen(input)))),
                Token("Eof", <<>>, Span(ByteLen(input), ByteLen(input))))

C10_Witness ==
  /\ result.status = "err"
  /\ result.err.kind = "InvalidIdent"
  /\ result.err.span.base > 0
  /\ Len(result.err.val) = 8

(***************************************************************************)
(* Properties of Tokenizer::next_token (checked on SpecLex).               *)
(***************************************************************************)
RECURSIVE LexemeStart(_)
\* the number of characters before the first one at or after i that is not
\* whitespace
LexemeStart(i) ==
  IF i < Len(input) /\ is_whitespace(input[i + 1]) THEN LexemeStart(i + 1) ELSE i

SpanEnd(tok) == tok.span.base + tok.span.len

C7_Exact(t, start) ==
  /\ t.tok.span.base = ByteLen(SubSeq(input, 1, start))
  /\ t.tok.span.len = ByteLen(SubSeq(input, start + 1, t.i1))
  /\ SpanEnd(t.tok) <= ByteLen(input)

C7_Increasing(k) ==
  (k > 1 /\ toks[k].tok.kind # "Eof")
    => /\ SpanEnd(toks[k - 1].tok) <= toks[k].tok.span.base
       /\ toks[k - 1].tok.span.base < toks[k].tok.span.base

\* C7: for every token next_token returns, span.base is the byte offset of
\* the first character of its lexeme (the first character after the
\* whitespace skipped), span.len the byte length of the lexeme, and
\* base + len <= input.len(); successive tokens' spans are disjoint and
\* strictly increasing.
C7_SpansOfLexemes ==
  \A k \in 1..Len(toks) :
    toks[k].ok => (C7_Exact(toks[k], LexemeStart(toks[k].i0)) /\ C7_Increasing(k))

RECURSIVE Closes(_)
\* a string whose contents start at character j has a closing quote: a quote
\* that no backslash escapes
Closes(j) ==
  IF j > Len(input) THEN FALSE
  ELSE IF input[j] = "\"" THEN TRUE
  ELSE IF input[j] = "\\" THEN Closes(j + 2)
  ELSE Closes(j + 1)

UnterminatedAt(start) ==
  /\ start < Len(input)
  /\ input[start + 1] = "\""
  /\ ~Closes(start + 2)

IsUnterminated(t) ==
  /\ t.ok
  /\ t.tok.kind = "InvalidStr"
  /\ t.tok.val.err = "Unterminated"

\* C8: a string lexeme that reaches the end of the input without a closing
\* unescaped quote is cooked to InvalidStr(Unterminated, _), whatever
\* escapes, well formed or not, come before the end.
C8_UnterminatedString ==
  \A k \in 1..Len(toks) :
    UnterminatedAt(LexemeStart(toks[k].i0)) => IsUnterminated(toks[k])

C8_Witness ==
  \E k \in 1..Len(toks) :
    /\ IsUnterminated(toks[k])
    /\ toks[k].i1 - LexemeStart(toks[k].i0) > 6
    /\ ~unescape_string(SubSeq(input, LexemeStart(toks[k].i0) + 2, toks[k].i1)).ok
    /\ unescape_string(SubSeq(input, LexemeStart(toks[k].i0) + 2, toks[k].i1)).err
         = "LoneSurrogateUnicodeEscape"

(***************************************************************************)
(* More properties of parse (checked on Spec).                             *)
(***************************************************************************)
GrammarKinds == ScalarKinds \cup Openers \cup Closers \cup {"Colon", "Comma"}

\* the failing token of an error: the location an error built from tok has
C11_LocatedAt(e, tok) ==
  IF tok.kind = "InvalidStr" /\ e.kind = "InvalidStr"
  THEN e.span.base = tok.span.base + tok.val.offset /\ e.span.len = 0
  ELSE e.span = tok.span

C11_BuiltFromLast(e, item) ==
  IF item.some
  THEN /\ e.kind # "UnexpectedEof"
       /\ e.kind # "UnexpectedContinuation" => C10_Mapped(e, item.tok)
       /\ e.kind = "UnexpectedContinuation" => e.tkind = item.tok.kind
       /\ C11_LocatedAt(e, item.tok)
  ELSE e.kind = "UnexpectedEof"

C11_Failed ==
  /\ result.node = NoNode
  /\ stack = <<>>
  /\ vals = <<>>
  /\ fetched # <<>>
  /\ C11_BuiltFromLast(result.err, Last(fetched))
  /\ \A k \in 1..(Len(fetched) - 1) :
       fetched[k].some /\ fetched[k].tok.kind \in GrammarKinds

C11_State ==
  /\ nerrors <= 1
  /\ (result.status = "err") <=> (nerrors = 1)
  /\ result.status = "err" => C11_Failed

C11_Step ==
  /\ result.status = "running"
  /\ nerrors = 0
  /\ result'.status = "err" => (nerrors' = 1 /\ result'.node = NoNode)
  /\ result'.status # "err" => nerrors' = 0

\* C11: first error wins.  A failed parse constructs exactly one ParseError;
\* it is built from the token fetched last (or from the end of the input when
\* the last fetch found none), every token fetched before is one the grammar
\* uses, no Node comes with the error, and after the failing step the parser
\* takes no further step: it fetches no token and changes no result.
C11_FirstErrorWins == [](C11_State) /\ [][C11_Step]_vars

C11_Witness ==
  /\ result.status = "err"
  /\ nerrors = 1
  /\ Len(fetched) >= 4
  /\ Last(fetched).some
  /\ result.err.kind = "UnknownToken"

(***************************************************************************)
(* Properties of repeated calls of parse (checked on SpecCalls).           *)
(***************************************************************************)
SameOutcome(a, b) ==
  /\ a.status = b.status
  /\ a.node = b.node
  /\ a.err.kind = b.err.kind
  /\ a.err.tkind = b.err.tkind
  /\ a.err.val = b.err.val
  /\ a.err.reason = b.err.reason
  /\ a.err.span = b.err.span

\* C12: parse is deterministic and keeps nothing between calls: two calls on
\* the same input, whatever was parsed before or in between, return equal
\* results (the same Node, or the same error kind and span).
C12_SameInputSameResult ==
  /\ \A i, j \in 1..Len(calls) :
       calls[i].input = calls[j].input => SameOutcome(calls[i].result, calls[j].result)
  /\ \A i \in 1..Len(calls) :
       (Done /\ calls[i].input = input) => SameOutcome(calls[i].result, result)

C12_Witness ==
  /\ Len(calls) = 2
  /\ Done
  /\ calls[1].input = input
  /\ calls[2].input # input
  /\ calls[2].result.status = "err"
  /\ result.status = "ok"

(***************************************************************************)
(* The entries of the outermost container of a token sequence, read off    *)
(* the text: they are separated by the commas at nesting depth 1.          *)
(***************************************************************************)
RECURSIVE DepthBefore(_, _)
\* the number of containers open before token i
DepthBefore(ts, i) ==
  IF i <= 1 THEN 0
  ELSE DepthBefore(ts, i - 1)
         + (IF ts[i - 1].kind \in Openers THEN 1
            ELSE IF ts[i - 1].kind \in Closers THEN -1 ELSE 0)

\* where the entries of the outermost container start
EntryStarts(ts) ==
  IF Len(ts) <= 2 THEN {}
  ELSE {2} \cup {i + 1 : i \in {j \in 1..Len(ts) :
                                  ts[j].kind = "Comma" /\ DepthBefore(ts, j) = 1}}

\* the place of the entry starting at i among the entries
EntryNumber(ts, i) == Cardinality({j \in EntryStarts(ts) : j <= i})

C13_ArrayInOrder(ts, node) ==
  /\ Len(node.v) = Cardinality(EntryStarts(ts))
  /\ \A i \in EntryStarts(ts) : node.v[EntryNumber(ts, i)] = RefValue(ts, i).node

C13_ObjectInOrder(ts, node) ==
  /\ Len(node.v) = Cardinality(EntryStarts(ts))
  /\ \A i \in EntryStarts(ts) :
       /\ node.v[EntryNumber(ts, i)][1] = ts[i].val
       /\ node.v[EntryNumber(ts, i)][2] = RefValue(ts, i + 2).node

C13_InOrder(ts, node) ==
  /\ node = RefParse(ts).node
  /\ node.t = "Array" => C13_ArrayInOrder(ts, node)
  /\ node.t = "Object" => C13_ObjectInOrder(ts, node)

\* C13: on success an Object node lists its members in the source order of
\* the string : value pairs and keeps every pair, also when keys repeat; an
\* Array node lists its elements in source order; the number of entries is
\* the number of members or elements in the text (at every depth: the Node is
\* the one the grammar builds).
C13_EntriesInSourceOrder ==
  result.status = "ok" => C13_InOrder(tokenize(input).toks, result.node)

C13_Witness ==
  /\ result.status = "ok"
  /\ result.node.t = "Object"
  /\ Len(result.node.v) = 2
  /\ result.node.v[1][1] = result.node.v[2][1]
  /\ result.node.v[1][2].t = "Int"
  /\ result.node.v[2][2].t = "True"

(***************************************************************************)
(* More properties of Tokenizer::next_token (checked on SpecLex).          *)
(***************************************************************************)
\* the byte length of the lexeme of the call t
LexemeLen(t) == ByteLen(SubSeq(input, LexemeStart(t.i0) + 1, t.i1))

\* C14: for an unterminated string lexeme the token is
\* InvalidStr(Unterminated, offset) with offset the byte length of the
\* lexeme, counted from its opening quote, wherever the string starts.
C14_UnterminatedOffset ==
  \A k \in 1..Len(toks) :
    IsUnterminated(toks[k]) => toks[k].tok.val.offset = LexemeLen(toks[k])

(***************************************************************************)
(* Properties of number lexemes (checked on SpecNum).  The number grammar  *)
(* is read off the text from character j on: an optional minus sign, then  *)
(* a zero or a run of digits, then an optional fraction (a dot and at      *)
(* least one digit), then an optional exponent (e or E, an optional sign,  *)
(* at least one digit).                                                    *)
(***************************************************************************)
IsDigit(j) == j <= Len(input) /\ input[j] \in Digits

CharIs(j, set) == j <= Len(input) /\ input[j] \in set

RECURSIVE DigitsFrom(_)
\* the number of digits in a row from character j on
DigitsFrom(j) == IF IsDigit(j) THEN 1 + DigitsFrom(j + 1) ELSE 0

RefSign(j) == IF CharIs(j, {"-"}) THEN 1 ELSE 0

RefInt(j) == IF CharIs(j, {"0"}) THEN 1 ELSE DigitsFrom(j)

RefFrac(j) == IF CharIs(j, {"."}) /\ IsDigit(j + 1) THEN 1 + DigitsFrom(j + 1) ELSE 0

RefExp(j) ==
  IF ~CharIs(j, {"e", "E"}) THEN 0
  ELSE IF IsDigit(j + 1) THEN 1 + DigitsFrom(j + 1)
  ELSE IF CharIs(j + 1, {"+", "-"}) /\ IsDigit(j + 2) THEN 2 + DigitsFrom(j + 2)
  ELSE 0

RefMantissa(j) == RefInt(j) + RefFrac(j + RefInt(j))

RefUnsigned(j) == RefMantissa(j) + RefExp(j + RefMantissa(j))

\* the length of the longest prefix from character j on that is a number
RefNumLen(j) == RefSign(j) + RefUnsigned(j + RefSign(j))

RefNumKind(j) ==
  IF RefNumLen(j) > RefSign(j) + RefInt(j + RefSign(j)) THEN "Float" ELSE "Int"

\* a numeric lexeme starts at character j: a digit, or '-' and a digit
NumericAt(j) == IsDigit(j) \/ (CharIs(j, {"-"}) /\ IsDigit(j + 1))

\* C15: cooking an Int or Float lexeme never fails: for every numeric lexeme,
\* of any length, next_token returns an Int or a Float token.
C15_NumbersAlwaysCook ==
  \A k \in 1..Len(toks) :
    NumericAt(LexemeStart(toks[k].i0) + 1)
      => (toks[k].ok /\ toks[k].tok.kind \in {"Int", "Float"})

C16_Longest(j, raw) ==
  /\ raw.kind = RefNumKind(j)
  /\ raw.len = RefNumLen(j)
  /\ raw.cur.i = (j - 1) + RefNumLen(j)

\* C16: from a digit, or a '-' followed by a digit, the lexeme advance_token
\* returns is the longest prefix that is a number of the grammar, and its kind
\* is Float iff a fraction or an exponent was consumed, else Int.
C16_LongestNumber ==
  (~Panicked /\ NumericAt(lexer.cursor.i + 1))
    => C16_Longest(lexer.cursor.i + 1, advance_token(input, lexer.cursor))

(***************************************************************************)
(* Properties of string lexemes (checked on SpecLex).                      *)
(***************************************************************************)
RECURSIVE StringEnd(_)
\* the last character of a string lexeme whose contents start at character
\* j: the first quote that is not the second character of a backslash pair,
\* or the last character of the text
StringEnd(j) ==
  IF j > Len(input) THEN Len(input)
  ELSE IF input[j] = "\"" THEN j
  ELSE IF input[j] = "\\" THEN StringEnd(j + 2)
  ELSE StringEnd(j + 1)

C17_Extent(i, raw) ==
  /\ raw.kind = "Str"
  /\ raw.terminated = Closes(i + 2)
  /\ raw.cur.i = StringEnd(i + 2)
  /\ raw.len = ByteLen(SubSeq(input, i + 1, StringEnd(i + 2)))

\* C17: a string lexeme starting at a quote extends to the first following
\* quote that is not the second character of a backslash pair and is then
\* terminated; without such a quote it extends to the end of the input and is
\* not terminated.
C17_StringExtent ==
  (~Panicked /\ CharIs(lexer.cursor.i + 1, {"\""}))
    => C17_Extent(lexer.cursor.i, advance_token(input, lexer.cursor))

\* the characters between the quotes of the terminated string lexeme that
\* starts after start characters
Interior(start) == SubSeq(input, start + 2, StringEnd(start + 2) - 1)

TerminatedAt(start) == CharIs(start + 1, {"\""}) /\ Closes(start + 2)

C20_Cooked(t, start, u) ==
  /\ t.ok
  /\ t.tok.kind = "InvalidStr"
  /\ t.tok.val.err = StrErrorFrom(u.err)
  /\ t.tok.val.offset = 1 + u.lo
  /\ t.tok.span.base = ByteLen(SubSeq(input, 1, start))
  /\ t.tok.span.len = ByteLen(SubSeq(input, start + 1, StringEnd(start + 2)))

C20_At(t, start) ==
  (TerminatedAt(start) /\ ~unescape_string(Interior(start)).ok)
    => C20_Cooked(t, start, unescape_string(Interior(start)))

\* C20: for a terminated string lexeme whose interior fails to unescape with
\* (reason, range), the token is InvalidStr(reason, 1 + range.start), the
\* offset counted from the opening quote, and its span is the whole lexeme.
C20_InteriorErrorOffset ==
  \A k \in 1..Len(toks) : C20_At(toks[k], LexemeStart(toks[k].i0))

(***************************************************************************)
(* Properties of unescape_string (checked on SpecUnescape).  The elements  *)
(* of a string content are read off the text from character j on.          *)
(***************************************************************************)
RefSimple == {"\"", "\\", "/", "b", "f", "n", "r", "t"}

RefMapped(c) ==
  CASE c = "b" -> "U+0008"
    [] c = "f" -> "\f"
    [] c = "n" -> "\n"
    [] c = "r" -> "\r"
    [] c = "t" -> "\t"
    [] OTHER -> c

RefHexRows ==
  << {"0"}, {"1"}, {"2"}, {"3"}, {"4"}, {"5"}, {"6"}, {"7"}, {"8"}, {"9"},
     {"a", "A"}, {"b", "B"}, {"c", "C"}, {"d", "D"}, {"e", "E"}, {"f", "F"} >>

RefIsHex(j) == \E v \in 1..16 : CharIs(j, RefHexRows[v])

RefDigit(j) == (CHOOSE v \in 1..16 : input[j] \in RefHexRows[v]) - 1

RefHex4(j) == \A d \in 0..3 : RefIsHex(j + d)

RefCode(j) ==
  4096 * RefDigit(j) + 256 * RefDigit(j + 1) + 16 * RefDigit(j + 2) + RefDigit(j + 3)

\* a UTF-16 surrogate code unit, D800 to DFFF
RefSurrogate(code) == code >= 55296 /\ code <= 57343

RefUnicode(j) ==
  CharIs(j + 1, {"u"}) /\ RefHex4(j + 2) /\ ~RefSurrogate(RefCode(j + 2))

\* the number of characters of the element at character j, 0 for an element
\* the string grammar does not allow
RefElemLen(j) ==
  IF input[j] = "\\"
    THEN IF CharIs(j + 1, RefSimple) THEN 2
         ELSE IF RefUnicode(j) THEN 6
         ELSE 0
  ELSE IF input[j] \in {"\""} \cup ControlChars THEN 0
  ELSE 1

\* the character the element at character j stands for
RefElemChar(j) ==
  IF input[j] # "\\" THEN input[j]
  ELSE IF input[j + 1] = "u" THEN ScalarName(RefCode(j + 2))
  ELSE RefMapped(input[j + 1])

RECURSIVE RefFirstBad(_)
\* the first element from character j on that is not allowed, 0 if there is
\* none
RefFirstBad(j) ==
  IF j > Len(input) THEN 0
  ELSE IF RefElemLen(j) = 0 THEN j
  ELSE RefFirstBad(j + RefElemLen(j))

RECURSIVE RefDecoded(_)
RefDecoded(j) ==
  IF j > Len(input) THEN <<>>
  ELSE <<RefElemChar(j)>> \o RefDecoded(j + RefElemLen(j))

RECURSIVE RefHexRun(_, _)
\* the characters read for up to n hex digits from character j on: the
\* digits, and the first character that is not one
RefHexRun(j, n) ==
  IF n = 0 \/ j > Len(input) THEN 0
  ELSE IF ~RefIsHex(j) THEN 1
  ELSE 1 + RefHexRun(j + 1, n - 1)

\* the number of characters read by the attempt on the element at j
RefConsumed(j) ==
  IF input[j] # "\\" \/ j = Len(input) THEN 1
  ELSE IF input[j + 1] # "u" THEN 2
  ELSE 2 + RefHexRun(j + 2, 4)

BytesBefore(j) == ByteLen(SubSeq(input, 1, j - 1))

C18_Range(res, j) ==
  /\ j > 0
  /\ res.lo = BytesBefore(j)
  /\ res.hi = BytesBefore(j + RefConsumed(j))
  /\ res.lo < res.hi
  /\ res.hi <= ByteLen(input)

\* the attempt on the element at j read up to the end of the text and
\* would have read on
RefRanOut(j) ==
  /\ input[j] = "\\"
  /\ \/ j = Len(input)
     \/ /\ input[j + 1] = "u"
        /\ RefHexRun(j + 2, 4) < 4
        /\ RefHexRun(j + 2, 4) = 0 \/ RefIsHex(j + 1 + RefHexRun(j + 2, 4))

\* the texts that may follow the characters read for the element at j
RefRests(j) == IF RefRanOut(j) THEN {<<>>} ELSE RawFrags \cup {<<>>}

\* whatever follows the characters read, the result is the same
C18_RestNotExamined(res, j) ==
  \A w \in RefRests(j) :
    unescape_string(SubSeq(input, 1, j + RefConsumed(j) - 1) \o w) = res

\* C18: unescape_string returns Err for the first offending element and
\* examines nothing after it; the range is in bytes of the content, starts at
\* the first byte of that element and ends after the last byte read for it,
\* and range.start < range.end <= raw.len().
C18_FirstOffendingElement ==
  (unescaper.called /\ ~unescaper.res.ok)
    => /\ C18_Range(unescaper.res, RefFirstBad(1))
       /\ C18_RestNotExamined(unescaper.res, RefFirstBad(1))

C18_Witness ==
  /\ unescaper.called
  /\ ~unescaper.res.ok
  /\ unescaper.res.err = "BadUnicodeEscape"
  /\ unescaper.res.lo = 2
  /\ unescaper.res.hi = 6
  /\ unescaper.res.hi < ByteLen(input)

\* C19: unescape_string succeeds exactly on a content in which every
\* backslash is followed by one of the eight simple escape characters or by u
\* and four hex digits that are no surrogate, and that holds no raw quote or
\* control character; the result has the character of each escape and a copy
\* of every other character, in order.
C19_SucceedsOnGrammar ==
  unescaper.called
    => /\ unescaper.res.ok <=> RefFirstBad(1) = 0
       /\ unescaper.res.ok => unescaper.res.str = RefDecoded(1)

C19_Witness ==
  /\ unescaper.called
  /\ unescaper.res.ok
  /\ unescaper.res.str = <<"A", "\n", "U+00E9">>

(***************************************************************************)
(* Properties of the end of input (checked on SpecLex).                    *)
(***************************************************************************)
IsEofCall(t) == t.ok /\ t.tok.kind = "Eof"

EofReturned == \E k \in 1..Len(toks) : IsEofCall(toks[k])

\* the calls made after the call k returned Eof returned the same Eof token
\* and consumed nothing
C21_LaterCalls(k) ==
  \A l \in (k + 1)..Len(toks) :
    /\ IsEofCall(toks[l])
    /\ toks[l].tok.span = toks[k].tok.span
    /\ toks[l].tok.span.len = 0
    /\ toks[l].i1 = toks[l].i0
    /\ toks[l].i1 = toks[k].i1

\* the next call returns Eof again and leaves the Tokenizer as it is
C21_NextCall ==
  /\ advance_token(input, lexer.cursor) = RawToken("Eof", FALSE, 0, lexer.cursor)
  /\ next_token(input, lexer).ok
  /\ next_token(input, lexer).tok.kind = "Eof"
  /\ next_token(input, lexer).tz = lexer
  /\ IterNext(input, lexer).item = None

\* C21: once advance_token has returned an Eof lexeme, every later call of
\* advance_token and next_token returns Eof with length 0 and leaves the
\* running position unchanged, and the iterator returns None.
C21_EofAbsorbing ==
  EofReturned
    => /\ C21_NextCall
       /\ \A k \in 1..Len(toks) : IsEofCall(toks[k]) => C21_LaterCalls(k)

C21_Witness ==
  /\ Len(toks) >= 3
  /\ toks[1].tok.kind = "Unknown"
  /\ toks[1].tok.val = <<"-">>
  /\ IsEofCall(toks[Len(toks) - 1])
  /\ toks[Len(toks) - 1].ws
  /\ IsEofCall(toks[Len(toks)])

(***************************************************************************)
(* Properties of the raw lexemes (checked on SpecLex).                     *)
(***************************************************************************)
RECURSIVE RawLenSum(_)
RECURSIVE RawLenSumAfter(_)
\* the sum of the lengths of the lexemes advance_token returns from the
\* cursor c on, up to the first Eof
RawLenSum(c) == RawLenSumAfter(advance_token(input, c))

RawLenSumAfter(raw) ==
  IF raw.kind = "Eof" THEN 0 ELSE raw.len + RawLenSum(raw.cur)

\* a lexeme that is not Eof has the length of the characters consumed for it
C22_Covers(c, raw) ==
  raw.kind # "Eof"
    => /\ raw.len >= 1
       /\ raw.len = ByteLen(SubSeq(input, c.i + 1, raw.cur.i))

\* C22: the lengths of the raw lexemes up to the first Eof sum to
\* input.len(), and every lexeme that is not Eof has length >= 1 and covers
\* exactly the characters consumed for it, also the one after a lone '-'.
C22_LexemesCoverInput ==
  /\ RawLenSum(CursorNew(input)) = ByteLen(input)
  /\ ~Panicked => C22_Covers(lexer.cursor, advance_token(input, lexer.cursor))

(***************************************************************************)
(* The raw lexer and the unescaper on the same string (checked on          *)
(* SpecLex).                                                               *)
(***************************************************************************)
\* the cursor of a lexeme that starts after i characters
CursorAt(i) == [i |-> i, len_remaining |-> RemBytes(input, i)]

\* the characters between the quotes of the string lexeme raw that starts
\* after i characters
InteriorOf(i, raw) == SubSeq(input, i + 2, raw.cur.i - 1)

C23_Agree(u) == u.ok \/ u.err \notin {"LoneSlash", "EscapeOnlyChar"}

\* the lexeme at the cursor, if a terminated string, has an interior on which
\* unescape_string gives neither LoneSlash nor EscapeOnlyChar
C23_TerminatedInterior(i, raw) ==
  (raw.kind = "Str" /\ raw.terminated)
    => C23_Agree(unescape_string(InteriorOf(i, raw)))

\* the token of the call t is InvalidStr(Unterminated, _) only if the raw
\* lexeme it was cooked from is a string flagged terminated = false
C23_OnlyUnterminated(t) ==
  IsUnterminated(t)
    => /\ advance_token(input, CursorAt(LexemeStart(t.i0))).kind = "Str"
       /\ ~advance_token(input, CursorAt(LexemeStart(t.i0))).terminated

FrameNames == {"value", "object", "member", "members", "array", "elements", "end"}

\* the tokens the parser has taken: those fetched, but for a peeked one
Taken == Len(fetched) - (IF peeked.has THEN 1 ELSE 0)

ValueCalls == Cardinality({k \in 1..Len(stack) : stack[k].f = "value"})

Measure == 2 * Taken - ValueCalls

\* a parse that runs has a step to take, and the lexeme it would lex next is
\* not empty unless the text is at its end
C24_CanStep ==
  result.status = "running"
    => /\ stack # <<>>
       /\ Head(stack).f \in FrameNames
       /\ \/ is_eof(input, tokenizer.cursor)
          \/ advance_token(input, tokenizer.cursor).cur.i > tokenizer.cursor.i

C24_Bounded == Measure <= 2 * (Len(input) + 1) /\ Measure >= -1

C24_Progress == result'.status = "running" => Measure' > Measure

\* C24: parse terminates on every finite input with a result, Ok or Err:
\* it never ends without one, a running parse has a next step, and every step
\* that does not end it makes progress on a bounded measure.
C24_EndsWithResult ==
  /\ [](result.status \in {"running", "ok", "err"} /\ C24_CanStep /\ C24_Bounded)
  /\ [][C24_Progress]_vars

====
